---- MODULE Spec2Model ----
(***************************************************************************)
(* Per-prefix statistics of memcached (stats.c): the prefix hash table,    *)
(* the wildcard accumulator, the record_* handlers, clear and dump.        *)
(***************************************************************************)
EXTENDS Integers, Sequences, FiniteSets, TLC

(***************************************************************************)
(* Bounds of the model.                                                    *)
(***************************************************************************)
MaxKeyLen == 2      \* keys are byte strings of length 0..MaxKeyLen
MaxHashMul == 1     \* the hash functions tried: multipliers 0..MaxHashMul
MaxCalls == 2       \* record_* calls made in one behaviour
MaxAdmin == 2       \* dump and clear calls made in one behaviour
NThreads == 2       \* threads calling into the module concurrently
MaxMTCalls == 2     \* calls made in one behaviour of the threaded program
MaxPrefixes == 2    \* prefixes linked in the registries dumped at full counter width
MaxTime == 1        \* the coarse clock runs 0..MaxTime
MaxBytes == 1       \* byte sizes passed to the handlers: 1..MaxBytes
Bits32 == 3         \* modelled width of uint32_t and rel_time_t
Bits64 == 5         \* modelled width of uint64_t

U32 == 2 ^ Bits32
U64 == 2 ^ Bits64

(***************************************************************************)
(* Program constants.                                                      *)
(***************************************************************************)
PREFIX_HASH_SIZE == 256
prefix_delimiter == 58          \* settings.prefix_delimiter = ':'

KeyBytes == {prefix_delimiter, 97}

RECURSIVE SeqsUpTo(_)
SeqsUpTo(n) ==
    IF n = 0 THEN {<<>>}
    ELSE LET shorter == SeqsUpTo(n - 1)
         IN shorter \cup {Append(s, b) : s \in {t \in shorter : Len(t) = n - 1},
                                         b \in KeyBytes}

Keys == SeqsUpTo(MaxKeyLen)
ByteSizes == 1..MaxBytes
Deltas == {0 - 1, MaxBytes}          \* long bytes: a shrink and a growth
AllocOutcomes == {"ok", "calloc_fails", "malloc_fails"}
PrefixFlagSets == SUBSET {"PREFIX_INCR_ITEM_COUNT", "PREFIX_IS_OVERWRITE"}
UnlinkFlagSets == SUBSET {"UNLINK_IS_EVICT", "UNLINK_IS_EXPIRED"}

VARIABLES
    prefix_stats,       \* PREFIX_STATS *prefix_stats[PREFIX_HASH_SIZE]: the chains, head
                        \* first, of the buckets whose head is not NULL
    num_prefixes,       \* static int num_prefixes
    total_prefix_size,  \* static int total_prefix_size
    wildcard,           \* static PREFIX_STATS wildcard
    current_time,       \* the coarse clock (rel_time_t)
    hash_mul,           \* which hash function the process runs with
    call,               \* the last public call made: its name and its clock reading
    ret,                \* what the last call returned: dump's buffer and length
    calls,              \* number of record_* calls made so far
    admin,              \* number of dump and clear calls made so far
    pc,                 \* where each thread is in its call
    req,                \* each thread's call: its arguments and locals
    lock,               \* holder of the stats lock, 0 when free
    set,                \* SIZE_BUCKETS set: per range, the count of each slot
    hit,                \* SIZE_BUCKETS hit
    evict,              \* SIZE_BUCKETS evict
    delete,             \* SIZE_BUCKETS delete
    overwrite,          \* SIZE_BUCKETS overwrite
    expires             \* SIZE_BUCKETS expires

mtvars == <<pc, req, lock>>

\* the size histograms of STATS_BUCKETS
size_buckets == <<set, hit, evict, delete, overwrite, expires>>

vars == <<prefix_stats, num_prefixes, total_prefix_size, wildcard,
          current_time, hash_mul, call, ret, calls, admin, mtvars, size_buckets>>

(***************************************************************************)
(* Pointers and the PREFIX_STATS structure.                                *)
(***************************************************************************)
NULL == [kind |-> "null", addr |-> 0, bucket |-> 0, idx |-> 0]
WildcardPtr == [kind |-> "static", addr |-> 0, bucket |-> 0, idx |-> 0]
\* a pointer to a heap accumulator: its address, and the chain slot it is linked at
HeapPtr(a, b, i) == [kind |-> "heap", addr |-> a, bucket |-> b, idx |-> i]
SamePtr(p, q) == p.kind = q.kind /\ p.addr = q.addr

\* a zero-filled PREFIX_STATS living at address a (pool_calloc / memset 0)
ZeroStats(a) ==
    [addr |-> a, prefix |-> <<>>, prefix_len |-> 0, num_items |-> 0,
     last_update |-> 0, num_gets |-> 0, num_hits |-> 0, num_sets |-> 0,
     num_deletes |-> 0, num_evicts |-> 0, num_overwrites |-> 0,
     num_expires |-> 0, num_bytes |-> 0, bytes_txed |-> 0,
     total_byte_seconds |-> 0]

Buckets == 0..(PREFIX_HASH_SIZE - 1)

\* the registry as one value: what the handlers read and write
Reg == [prefix_stats |-> prefix_stats, num_prefixes |-> num_prefixes,
        total_prefix_size |-> total_prefix_size, wildcard |-> wildcard]

\* memset(prefix_stats, 0, sizeof(prefix_stats)): every head is NULL
NoChains == [b \in {} |-> <<>>]

EmptyReg == [prefix_stats |-> NoChains, num_prefixes |-> 0,
             total_prefix_size |-> 0, wildcard |-> ZeroStats(0)]

UsedBuckets(r) == DOMAIN r.prefix_stats

\* prefix_stats[b]: the chain of bucket b, empty when the head is NULL
Chain(r, b) == IF b \in DOMAIN r.prefix_stats THEN r.prefix_stats[b] ELSE <<>>

\* prefix_stats[b] = chain
SetChain(table, b, chain) ==
    [c \in (DOMAIN table) \cup {b} |-> IF c = b THEN chain ELSE table[c]]

\* the first bucket at or after i whose chain is not empty; PREFIX_HASH_SIZE when none is
NextUsedBucket(r, i) ==
    LET later == {b \in UsedBuckets(r) : b >= i} IN
    IF later = {} THEN PREFIX_HASH_SIZE
    ELSE CHOOSE b \in later : \A c \in later : b <= c

\* every accumulator linked in some chain of r
Linked(r) ==
    UNION {{r.prefix_stats[b][i] : i \in 1..Len(r.prefix_stats[b])} : b \in UsedBuckets(r)}

HeapAddrs(r) == {s.addr : s \in Linked(r)}

\* pool_calloc hands out the lowest address not in use
FreshAddr(r) == CHOOSE a \in 1..(Cardinality(HeapAddrs(r)) + 1) :
                    /\ a \notin HeapAddrs(r)
                    /\ \A b \in 1..(a - 1) : b \in HeapAddrs(r)

Deref(r, p) ==
    IF p.kind = "static" THEN r.wildcard ELSE r.prefix_stats[p.bucket][p.idx]

Store(r, p, s) ==
    IF p.kind = "static" THEN [r EXCEPT !.wildcard = s]
    ELSE [r EXCEPT !.prefix_stats[p.bucket][p.idx] = s]

(***************************************************************************)
(* External collaborators: the keyed hash.                                 *)
(***************************************************************************)
RECURSIVE ByteSum(_, _)
ByteSum(key, length) ==
    IF length = 0 THEN 0 ELSE key[length] + ByteSum(key, length - 1)

hash(key, length, initval) == initval + hash_mul * ByteSum(key, length)

(***************************************************************************)
(* stats_prefix_find                                                       *)
(***************************************************************************)
\* mutant: the loop stops one byte short of the key's end
RECURSIVE ScanDelimiter_StopsShort(_, _, _)
ScanDelimiter_StopsShort(key, nkey, length) ==
    IF length < nkey - 1 /\ key[length + 1] # prefix_delimiter
    THEN ScanDelimiter_StopsShort(key, nkey, length + 1)
    ELSE length

RECURSIVE ScanDelimiter(_, _, _)
ScanDelimiter(key, nkey, length) ==
    IF length < nkey /\ key[length + 1] # prefix_delimiter
    THEN ScanDelimiter(key, nkey, length + 1)
    ELSE length

memcmp(a, b, n) == IF \A i \in 1..n : a[i] = b[i] THEN 0 ELSE 1

\* mutant: compares the first length bytes only, whatever the stored length
PrefixMatches_FirstBytes(pfs, key, length) ==
    length <= pfs.prefix_len /\ memcmp(pfs.prefix, key, length) = 0

PrefixMatches(pfs, key, length) ==
    length = pfs.prefix_len /\ memcmp(pfs.prefix, key, length) = 0

\* index of the first chain entry that matches, 0 when none does
RECURSIVE ChainSearch(_, _, _, _)
ChainSearch(chain, key, length, i) ==
    IF i > Len(chain) THEN 0
    ELSE IF PrefixMatches(chain[i], key, length) THEN i
    ELSE ChainSearch(chain, key, length, i + 1)

\* mutant: the prefix is counted before its copy is allocated
stats_prefix_find_CountsFirst(r, key, nkey, alloc) ==
    LET length == ScanDelimiter(key, nkey, 0) IN
    IF length = nkey THEN [pfs |-> WildcardPtr, reg |-> r]
    ELSE
      LET hashval == hash(key, length, 0) % PREFIX_HASH_SIZE
          found == ChainSearch(Chain(r, hashval), key, length, 1)
          counted == [r EXCEPT !.num_prefixes = @ + 1, !.total_prefix_size = @ + length]
      IN
      IF found # 0
      THEN [pfs |-> HeapPtr(r.prefix_stats[hashval][found].addr, hashval, found), reg |-> r]
      ELSE IF alloc = "calloc_fails" THEN [pfs |-> NULL, reg |-> r]
      ELSE IF alloc = "malloc_fails" THEN [pfs |-> NULL, reg |-> counted]
      ELSE
        LET a == FreshAddr(r)
            new == [ZeroStats(a) EXCEPT !.prefix = SubSeq(key, 1, length),
                                        !.prefix_len = length]
        IN [pfs |-> HeapPtr(a, hashval, 1),
            reg |-> [counted EXCEPT !.prefix_stats =
                                  SetChain(@, hashval, <<new>> \o Chain(r, hashval))]]

\* mutant: the new accumulator becomes the whole chain, pfs->next left NULL
stats_prefix_find_DropsChain(r, key, nkey, alloc) ==
    LET length == ScanDelimiter(key, nkey, 0) IN
    IF length = nkey THEN [pfs |-> WildcardPtr, reg |-> r]
    ELSE
      LET hashval == hash(key, length, 0) % PREFIX_HASH_SIZE
          found == ChainSearch(Chain(r, hashval), key, length, 1)
      IN
      IF found # 0
      THEN [pfs |-> HeapPtr(r.prefix_stats[hashval][found].addr, hashval, found), reg |-> r]
      ELSE IF alloc # "ok" THEN [pfs |-> NULL, reg |-> r]
      ELSE
        LET a == FreshAddr(r)
            new == [ZeroStats(a) EXCEPT !.prefix = SubSeq(key, 1, length),
                                        !.prefix_len = length]
        IN [pfs |-> HeapPtr(a, hashval, 1),
            reg |-> [r EXCEPT !.prefix_stats = SetChain(@, hashval, <<new>>),
                              !.num_prefixes = @ + 1,
                              !.total_prefix_size = @ + length]]

stats_prefix_find(r, key, nkey, alloc) ==
    LET length == ScanDelimiter(key, nkey, 0) IN
    IF length = nkey THEN [pfs |-> WildcardPtr, reg |-> r]
    ELSE
      LET hashval == hash(key, length, 0) % PREFIX_HASH_SIZE
          found == ChainSearch(Chain(r, hashval), key, length, 1)
      IN
      IF found # 0
      THEN [pfs |-> HeapPtr(r.prefix_stats[hashval][found].addr, hashval, found), reg |-> r]
      ELSE IF alloc # "ok" THEN [pfs |-> NULL, reg |-> r]
      ELSE
        LET a == FreshAddr(r)
            new == [ZeroStats(a) EXCEPT !.prefix = SubSeq(key, 1, length),
                                        !.prefix_len = length]
        IN [pfs |-> HeapPtr(a, hashval, 1),
            reg |-> [r EXCEPT !.prefix_stats =
                                  SetChain(@, hashval, <<new>> \o Chain(r, hashval)),
                              !.num_prefixes = @ + 1,
                              !.total_prefix_size = @ + length]]

\* whether the call has to allocate; only then the allocator's answer matters
NeedsAlloc(r, key) ==
    stats_prefix_find(r, key, Len(key), "calloc_fails").pfs.kind = "null"

AllocChoices(r, key) == IF NeedsAlloc(r, key) THEN AllocOutcomes ELSE {"ok"}

(***************************************************************************)
(* The time-weighted flush and the record_* handlers.  Each handler is the *)
(* body run between GLOBAL_STATS_LOCK and GLOBAL_STATS_UNLOCK: it maps the *)
(* registry to the registry it leaves.                                     *)
(***************************************************************************)
\* rel_time_t difference, then the 64-bit product and sum
ByteSeconds(pfs, now) ==
    (pfs.total_byte_seconds + pfs.num_bytes * ((now - pfs.last_update) % U32)) % U64

\* if (now != pfs->last_update) { total_byte_seconds += ...; last_update = now; }
FlushIfMoved(pfs, now) ==
    IF now # pfs.last_update
    THEN [pfs EXCEPT !.total_byte_seconds = ByteSeconds(pfs, now),
                     !.last_update = now]
    ELSE pfs

\* mutant: a miss is not counted as a get
GetUpdate_HitOnly(pfs, nbytes, is_hit) ==
    IF is_hit
    THEN [pfs EXCEPT !.num_gets = (@ + 1) % U64,
                     !.num_hits = (@ + 1) % U64,
                     !.bytes_txed = (@ + nbytes) % U64]
    ELSE pfs

GetUpdate(pfs, nbytes, is_hit) ==
    LET got == [pfs EXCEPT !.num_gets = (@ + 1) % U64] IN
    IF is_hit
    THEN [got EXCEPT !.num_hits = (@ + 1) % U64,
                     !.bytes_txed = (@ + nbytes) % U64]
    ELSE got

stats_prefix_record_get(r, key, nkey, nbytes, is_hit, alloc) ==
    LET f == stats_prefix_find(r, key, nkey, alloc) IN
    IF f.pfs.kind # "null"
    THEN Store(f.reg, f.pfs, GetUpdate(Deref(f.reg, f.pfs), nbytes, is_hit))
    ELSE f.reg

\* mutant: the delete is counted as a get as well
DeleteUpdate_CountsGet(pfs) ==
    [pfs EXCEPT !.num_deletes = (@ + 1) % U64, !.num_gets = (@ + 1) % U64]

DeleteUpdate(pfs) == [pfs EXCEPT !.num_deletes = (@ + 1) % U64]

stats_prefix_record_delete(r, key, nkey, alloc) ==
    LET f == stats_prefix_find(r, key, nkey, alloc) IN
    IF f.pfs.kind # "null"
    THEN Store(f.reg, f.pfs, DeleteUpdate(Deref(f.reg, f.pfs)))
    ELSE f.reg

\* mutant: the set is counted as a stored item at once
SetUpdate_CountsItem(pfs) ==
    [pfs EXCEPT !.num_sets = (@ + 1) % U64, !.num_items = (@ + 1) % U32]

SetUpdate(pfs) == [pfs EXCEPT !.num_sets = (@ + 1) % U64]

stats_prefix_record_set(r, key, nkey, alloc) ==
    LET f == stats_prefix_find(r, key, nkey, alloc) IN
    IF f.pfs.kind # "null"
    THEN Store(f.reg, f.pfs, SetUpdate(Deref(f.reg, f.pfs)))
    ELSE f.reg

\* mutant: the byte total is changed ahead of the flush
ByteTotalChangeUpdate_AddsFirst(pfs, bytes, prefix_stats_flags, now) ==
    LET added == [pfs EXCEPT !.num_bytes = (@ + bytes) % U64]
        flushed == FlushIfMoved(added, now)
        counted == IF "PREFIX_INCR_ITEM_COUNT" \in prefix_stats_flags
                   THEN [flushed EXCEPT !.num_items = (@ + 1) % U32]
                   ELSE flushed
    IN IF "PREFIX_IS_OVERWRITE" \in prefix_stats_flags
       THEN [counted EXCEPT !.num_overwrites = (@ + 1) % U64]
       ELSE counted

ByteTotalChangeUpdate(pfs, bytes, prefix_stats_flags, now) ==
    LET flushed == FlushIfMoved(pfs, now)
        added == [flushed EXCEPT !.num_bytes = (@ + bytes) % U64]
        counted == IF "PREFIX_INCR_ITEM_COUNT" \in prefix_stats_flags
                   THEN [added EXCEPT !.num_items = (@ + 1) % U32]
                   ELSE added
    IN IF "PREFIX_IS_OVERWRITE" \in prefix_stats_flags
       THEN [counted EXCEPT !.num_overwrites = (@ + 1) % U64]
       ELSE counted

stats_prefix_record_byte_total_change(r, key, nkey, bytes, prefix_stats_flags, alloc, now) ==
    LET f == stats_prefix_find(r, key, nkey, alloc) IN
    IF f.pfs.kind # "null"
    THEN Store(f.reg, f.pfs,
               ByteTotalChangeUpdate(Deref(f.reg, f.pfs), bytes, prefix_stats_flags, now))
    ELSE f.reg

\* mutant: the two reasons are tested one after the other, without the else
RemovalUpdate_BothReasons(pfs, bytes, flags, now) ==
    LET evicted == IF "UNLINK_IS_EVICT" \in flags
                   THEN [pfs EXCEPT !.num_evicts = (@ + 1) % U64]
                   ELSE pfs
        reasoned == IF "UNLINK_IS_EXPIRED" \in flags
                    THEN [evicted EXCEPT !.num_expires = (@ + 1) % U64]
                    ELSE evicted
        flushed == FlushIfMoved(reasoned, now)
    IN [flushed EXCEPT !.num_bytes = (@ - bytes) % U64,
                       !.num_items = (@ - 1) % U32]

\* mutant: the byte total and the item count stop at zero
RemovalUpdate_Clamped(pfs, bytes, flags, now) ==
    LET reasoned == IF "UNLINK_IS_EVICT" \in flags
                    THEN [pfs EXCEPT !.num_evicts = (@ + 1) % U64]
                    ELSE IF "UNLINK_IS_EXPIRED" \in flags
                    THEN [pfs EXCEPT !.num_expires = (@ + 1) % U64]
                    ELSE pfs
        flushed == FlushIfMoved(reasoned, now)
    IN [flushed EXCEPT !.num_bytes = IF @ >= bytes THEN @ - bytes ELSE 0,
                       !.num_items = IF @ > 0 THEN @ - 1 ELSE 0]

RemovalUpdate(pfs, bytes, flags, now) ==
    LET reasoned == IF "UNLINK_IS_EVICT" \in flags
                    THEN [pfs EXCEPT !.num_evicts = (@ + 1) % U64]
                    ELSE IF "UNLINK_IS_EXPIRED" \in flags
                    THEN [pfs EXCEPT !.num_expires = (@ + 1) % U64]
                    ELSE pfs
        flushed == FlushIfMoved(reasoned, now)
    IN [flushed EXCEPT !.num_bytes = (@ - bytes) % U64,
                       !.num_items = (@ - 1) % U32]

stats_prefix_record_removal(r, key, nkey, bytes, flags, alloc, now) ==
    LET f == stats_prefix_find(r, key, nkey, alloc) IN
    IF f.pfs.kind # "null"
    THEN Store(f.reg, f.pfs, RemovalUpdate(Deref(f.reg, f.pfs), bytes, flags, now))
    ELSE f.reg

(***************************************************************************)
(* stats_prefix_clear                                                      *)
(***************************************************************************)
\* mutant: num_prefixes and total_prefix_size are not reset
stats_prefix_clear_KeepsCounts(r) ==
    [prefix_stats |-> NoChains, num_prefixes |-> r.num_prefixes,
     total_prefix_size |-> r.total_prefix_size, wildcard |-> ZeroStats(0)]

\* mutant: the wildcard is left as it was
stats_prefix_clear_KeepsWildcard(r) ==
    [prefix_stats |-> NoChains, num_prefixes |-> 0,
     total_prefix_size |-> 0, wildcard |-> r.wildcard]

stats_prefix_clear(r) ==
    [prefix_stats |-> NoChains, num_prefixes |-> 0,
     total_prefix_size |-> 0, wildcard |-> ZeroStats(0)]

(***************************************************************************)
(* Formatting: what snprintf writes for the dump format.                   *)
(***************************************************************************)
Digit(d) ==
    CASE d = 0 -> "0" [] d = 1 -> "1" [] d = 2 -> "2" [] d = 3 -> "3"
      [] d = 4 -> "4" [] d = 5 -> "5" [] d = 6 -> "6" [] d = 7 -> "7"
      [] d = 8 -> "8" [] d = 9 -> "9"

\* %u and %llu: unsigned decimal, no padding
RECURSIVE Dec(_)
Dec(n) == IF n < 10 THEN Digit(n) ELSE Dec(n \div 10) \o Digit(n % 10)

Chr(b) ==
    CASE b = prefix_delimiter -> ":" [] b = 97 -> "a" [] b = 42 -> "*"
      [] b = 119 -> "w" [] b = 105 -> "i" [] b = 108 -> "l" [] b = 100 -> "d"
      [] b = 99 -> "c" [] b = 114 -> "r" [] OTHER -> "?"

\* %.*s: at most precision bytes of str
RECURSIVE StrN(_, _)
StrN(str, precision) ==
    IF precision = 0 \/ str = <<>> THEN ""
    ELSE Chr(Head(str)) \o StrN(Tail(str), precision - 1)

PRINTF_INT64_MODIFIER == "ll"
I64 == "%" \o PRINTF_INT64_MODIFIER \o "u"

\* the format as its literal pieces and conversions, in order
STATS_PREFIX_DUMP_FORMAT ==
    <<"PREFIX ", "%.*s", " item ", "%u", " get ", I64, " hit ", I64,
      " set ", I64, " del ", I64, " evict ", I64, " ov ", I64, " exp ", I64,
      " bytes ", I64, " txed ", I64, " byte-seconds ", I64, "\r\n">>

I64Wide == "%16" \o PRINTF_INT64_MODIFIER \o "u"

Conversions == {"%.*s", "%u", I64, "%8d", "%-8d", I64Wide}

RECURSIVE strlen(_)
strlen(fmt) == IF fmt = <<>> THEN 0 ELSE Len(Head(fmt)) + strlen(Tail(fmt))

\* the text vsnprintf produces: literals copied, each conversion takes the next argument
RECURSIVE Printf(_, _)
Printf(fmt, args) ==
    IF fmt = <<>> THEN ""
    ELSE IF Head(fmt) \in Conversions
         THEN Head(args) \o Printf(Tail(fmt), Tail(args))
         ELSE Head(fmt) \o Printf(Tail(fmt), args)

terminator == <<"END\r\n">>
wildcard_name == <<42, 119, 105, 108, 100, 99, 97, 114, 100, 42>>    \* "*wildcard*"

\* sizeof of a char array: its bytes and the closing NUL
sizeof(str) == Len(str) + 1

format_len == sizeof(I64) - sizeof("")

\* the arguments of one PREFIX line, converted
LineArgs(name, pfs) ==
    <<name, Dec(pfs.num_items), Dec(pfs.num_gets), Dec(pfs.num_hits),
      Dec(pfs.num_sets), Dec(pfs.num_deletes), Dec(pfs.num_evicts),
      Dec(pfs.num_overwrites), Dec(pfs.num_expires), Dec(pfs.num_bytes),
      Dec(pfs.bytes_txed), Dec(pfs.total_byte_seconds)>>

(***************************************************************************)
(* append_to_buffer: the text is appended whole when it fits in what is    *)
(* left after the reserve, and dropped otherwise.                          *)
(***************************************************************************)
append_to_buffer(out, size, reserved, text) ==
    LET left == size - out.offset - reserved IN
    IF Len(text) < left
    THEN [buf |-> Append(out.buf, text), offset |-> out.offset + Len(text)]
    ELSE out

(***************************************************************************)
(* stats_prefix_dump                                                       *)
(***************************************************************************)
\* mutant: every number is given the 10 digits of a 32-bit value
DumpBufferSize_TenDigits(tps, np) ==
    tps + (np + 1) * (strlen(STATS_PREFIX_DUMP_FORMAT) + 11 * (10 - format_len))
        + sizeof(wildcard_name) + sizeof(terminator[1])

DumpBufferSize(tps, np) ==
    tps + (np + 1) * (strlen(STATS_PREFIX_DUMP_FORMAT) + 11 * (20 - format_len))
        + sizeof(wildcard_name) + sizeof(terminator[1])

\* mutant: the bytes are taken off the accumulator once they are integrated
FlushAlways_ResetsBytes(pfs, now) ==
    [pfs EXCEPT !.total_byte_seconds = ByteSeconds(pfs, now),
                !.last_update = now,
                !.num_bytes = 0]

\* mutant: the byte-seconds are added but last_update is not advanced
FlushAlways_KeepsLastUpdate(pfs, now) ==
    [pfs EXCEPT !.total_byte_seconds = ByteSeconds(pfs, now)]

\* pfs->total_byte_seconds += pfs->num_bytes * (now - pfs->last_update); last_update = now
FlushAlways(pfs, now) ==
    [pfs EXCEPT !.total_byte_seconds = ByteSeconds(pfs, now), !.last_update = now]

\* mutant: the chain is walked from its tail to its head
RECURSIVE DumpChain_TailFirst(_, _, _, _, _)
DumpChain_TailFirst(chain, i, now, size, acc) ==
    IF i > Len(chain) THEN acc
    ELSE LET pfs == FlushAlways(chain[Len(chain) + 1 - i], now)
             text == Printf(STATS_PREFIX_DUMP_FORMAT,
                            LineArgs(StrN(pfs.prefix, pfs.prefix_len), pfs))
         IN DumpChain_TailFirst(chain, i + 1, now, size,
                      [chain |-> <<pfs>> \o acc.chain,
                       out |-> append_to_buffer(acc.out, size, sizeof(terminator[1]), text)])

\* one chain, head first: flush each entry and append its line
RECURSIVE DumpChain(_, _, _, _, _)
DumpChain(chain, i, now, size, acc) ==
    IF i > Len(chain) THEN acc
    ELSE LET pfs == FlushAlways(chain[i], now)
             text == Printf(STATS_PREFIX_DUMP_FORMAT,
                            LineArgs(StrN(pfs.prefix, pfs.prefix_len), pfs))
         IN DumpChain(chain, i + 1, now, size,
                      [chain |-> Append(acc.chain, pfs),
                       out |-> append_to_buffer(acc.out, size, sizeof(terminator[1]), text)])

\* for (i = 0; i < PREFIX_HASH_SIZE; i++): the loop body does nothing for an
\* empty chain, so the walk steps from one non-empty bucket to the next
RECURSIVE DumpBuckets(_, _, _, _, _)
DumpBuckets(r, i, now, size, acc) ==
    IF i >= PREFIX_HASH_SIZE THEN acc
    ELSE LET c == DumpChain(r.prefix_stats[i], 1, now, size,
                            [chain |-> <<>>, out |-> acc.out])
         IN DumpBuckets(r, NextUsedBucket(r, i + 1), now, size,
                        [table |-> SetChain(acc.table, i, c.chain), out |-> c.out])

\* mutant: a wildcard holding items or bytes is shown too
WildcardActive_AnyTraffic(w) ==
    \/ w.num_gets # 0 \/ w.num_sets # 0 \/ w.num_deletes # 0
    \/ w.num_items # 0 \/ w.num_bytes # 0

WildcardActive(w) == w.num_gets # 0 \/ w.num_sets # 0 \/ w.num_deletes # 0

\* stats_prefix_dump, had it walked and flushed the accumulators ahead of malloc
stats_prefix_dump_FlushesFirst(r, now, malloc_ok) ==
    LET size == DumpBufferSize(r.total_prefix_size, r.num_prefixes)
        walked == DumpBuckets(r, NextUsedBucket(r, 0), now, size,
                              [table |-> r.prefix_stats,
                               out |-> [buf |-> <<>>, offset |-> 0]])
        w == FlushAlways(r.wildcard, now)
        flushed == [r EXCEPT !.prefix_stats = walked.table, !.wildcard = w]
    IN IF ~malloc_ok
       THEN [reg |-> flushed, returned |-> "NULL", buf |-> <<>>, length |-> 0,
             size |-> size]
       ELSE
         LET withWild == IF WildcardActive(w)
                         THEN append_to_buffer(walked.out, size, sizeof(terminator[1]),
                                  Printf(STATS_PREFIX_DUMP_FORMAT,
                                         LineArgs(StrN(wildcard_name, sizeof(wildcard_name) - 1), w)))
                         ELSE walked.out
             done == append_to_buffer(withWild, size, 0, Printf(terminator, <<>>))
         IN [reg |-> flushed, returned |-> "buf", buf |-> done.buf,
             length |-> done.offset, size |-> size]

\* what dump leaves and returns; NULL is returned when malloc fails
stats_prefix_dump(r, now, malloc_ok) ==
    LET size == DumpBufferSize(r.total_prefix_size, r.num_prefixes) IN
    IF ~malloc_ok
    THEN [reg |-> r, returned |-> "NULL", buf |-> <<>>, length |-> 0, size |-> size]
    ELSE
      LET walked == DumpBuckets(r, NextUsedBucket(r, 0), now, size,
                                [table |-> r.prefix_stats,
                                 out |-> [buf |-> <<>>, offset |-> 0]])
          w == FlushAlways(r.wildcard, now)
          withWild == IF WildcardActive(w)
                      THEN append_to_buffer(walked.out, size, sizeof(terminator[1]),
                               Printf(STATS_PREFIX_DUMP_FORMAT,
                                      LineArgs(StrN(wildcard_name, sizeof(wildcard_name) - 1), w)))
                      ELSE walked.out
          done == append_to_buffer(withWild, size, 0, Printf(terminator, <<>>))
      IN [reg |-> [r EXCEPT !.prefix_stats = walked.table, !.wildcard = w],
          returned |-> "buf", buf |-> done.buf, length |-> done.offset, size |-> size]

(***************************************************************************)
(* The size histograms (STATS_BUCKETS) and item_stats_buckets.             *)
(***************************************************************************)
\* the BUCKETS_RANGE(start, end, skip) lines of buckets.h, in order
BUCKETS == <<[start |-> 0, end |-> 64, skip |-> 32],
             [start |-> 64, end |-> 192, skip |-> 128]>>

\* the slots of one range: the iterations of for (i = start; i < end; i += skip)
SlotsOf(range) == (range.end - range.start + range.skip - 1) \div range.skip

\* memset(&set, 0, sizeof(set)): every slot of every range at 0
NoCounts == [r \in 1..Len(BUCKETS) |-> [j \in 1..SlotsOf(BUCKETS[r]) |-> 0]]

\* the six histograms are zero-filled statics when the program starts
InitBuckets ==
    /\ set = NoCounts
    /\ hit = NoCounts
    /\ evict = NoCounts
    /\ delete = NoCounts
    /\ overwrite = NoCounts
    /\ expires = NoCounts

Hist == [set |-> set, hit |-> hit, evict |-> evict, delete |-> delete,
         overwrite |-> overwrite, expires |-> expires]

RECURSIVE Spaces(_)
Spaces(n) == IF n <= 0 THEN "" ELSE " " \o Spaces(n - 1)

\* %8d, %16llu: right-justified in the field width
PadLeft(str, width) == Spaces(width - Len(str)) \o str

\* %-8d: left-justified in the field width
PadRight(str, width) == str \o Spaces(width - Len(str))

BUCKETS_FORMAT ==
    <<"%8d", "-", "%-8d", ":", I64Wide, " sets ", I64Wide, " hits ", I64Wide,
      " evicts ", I64Wide, " deletes ", I64Wide, " expires ", I64Wide,
      " overwrites\r\n">>

\* the arguments of one range line, converted
BucketArgs(h, r, j, i, skip) ==
    <<PadLeft(Dec(i), 8), PadRight(Dec(i + skip - 1), 8),
      PadLeft(Dec(h.set[r][j + 1]), 16), PadLeft(Dec(h.hit[r][j + 1]), 16),
      PadLeft(Dec(h.evict[r][j + 1]), 16), PadLeft(Dec(h.delete[r][j + 1]), 16),
      PadLeft(Dec(h.expires[r][j + 1]), 16), PadLeft(Dec(h.overwrite[r][j + 1]), 16)>>

\* the test of BUCKETS_RANGE ahead of append_to_buffer
BucketShown(h, r, j) ==
    \/ h.set[r][j + 1] # 0
    \/ h.hit[r][j + 1] # 0
    \/ h.evict[r][j + 1] # 0
    \/ h.delete[r][j + 1] # 0
    \/ h.overwrite[r][j + 1] # 0

bufsize == 2 * 1024 * 1024

RECURSIVE BUCKETS_RANGE(_, _, _, _, _)
\* for (i = start, j = 0; i < end; i += skip, j ++) of range r, from i and j on
BUCKETS_RANGE(h, r, i, j, out) ==
    IF ~(i < BUCKETS[r].end) THEN out
    ELSE LET skip == BUCKETS[r].skip
             text == Printf(BUCKETS_FORMAT, BucketArgs(h, r, j, i, skip))
         IN BUCKETS_RANGE(h, r, i + skip, j + 1,
                IF BucketShown(h, r, j)
                THEN append_to_buffer(out, bufsize, sizeof(terminator[1]), text)
                ELSE out)

RECURSIVE IncludeBuckets(_, _, _)
\* #include "buckets.h": the ranges from r on, one after the other
IncludeBuckets(h, r, out) ==
    IF r > Len(BUCKETS) THEN out
    ELSE IncludeBuckets(h, r + 1, BUCKETS_RANGE(h, r, BUCKETS[r].start, 0, out))

\* what item_stats_buckets returns; NULL and *bytes = 0 when malloc fails
item_stats_buckets(h, malloc_ok) ==
    IF ~malloc_ok THEN [returned |-> "NULL", buf |-> <<>>, bytes |-> 0]
    ELSE LET lines == IncludeBuckets(h, 1, [buf |-> <<>>, offset |-> 0])
             done == append_to_buffer(lines, bufsize, 0, Printf(terminator, <<>>))
         IN [returned |-> "buf", buf |-> done.buf, bytes |-> done.offset]

(***************************************************************************)
(* The program run by one caller: every public call is one step.           *)
(***************************************************************************)
Threads == 1..NThreads

NoReq == [name |-> "none", key |-> <<>>, bytes |-> 0, is_hit |-> FALSE,
          flags |-> {}, alloc |-> "ok", now |-> 0]

NoRet == [returned |-> "none", buf |-> <<>>, length |-> 0, size |-> 0]

VoidRet == [NoRet EXCEPT !.returned = "void"]

SetReg(r) ==
    /\ prefix_stats' = r.prefix_stats
    /\ num_prefixes' = r.num_prefixes
    /\ total_prefix_size' = r.total_prefix_size
    /\ wildcard' = r.wildcard

Init ==
    /\ InitBuckets
    /\ prefix_stats = EmptyReg.prefix_stats
    /\ num_prefixes = 0
    /\ total_prefix_size = 0
    /\ wildcard = ZeroStats(0)
    /\ current_time = 0
    /\ hash_mul \in 0..MaxHashMul
    /\ call = [name |-> "none", now |-> 0]
    /\ ret = NoRet
    /\ calls = 0
    /\ admin = 0
    /\ pc = [t \in Threads |-> "idle"]
    /\ req = [t \in Threads |-> NoReq]
    /\ lock = 0

\* a record_* call
Called(c) ==
    /\ UNCHANGED size_buckets
    /\ calls < MaxCalls
    /\ calls' = calls + 1
    /\ call' = c
    /\ UNCHANGED <<current_time, hash_mul, admin, mtvars>>

\* a dump or clear call
CalledAdmin(c) ==
    /\ UNCHANGED size_buckets
    /\ admin < MaxAdmin
    /\ admin' = admin + 1
    /\ call' = c
    /\ UNCHANGED <<current_time, hash_mul, calls, mtvars>>

RecordGet ==
    \E key \in Keys, nbytes \in ByteSizes, is_hit \in BOOLEAN :
      \E alloc \in AllocChoices(Reg, key) :
        /\ Called([name |-> "record_get", now |-> 0])
        /\ SetReg(stats_prefix_record_get(Reg, key, Len(key), nbytes, is_hit, alloc))
        /\ ret' = VoidRet

RecordDelete ==
    \E key \in Keys :
      \E alloc \in AllocChoices(Reg, key) :
        /\ Called([name |-> "record_delete", now |-> 0])
        /\ SetReg(stats_prefix_record_delete(Reg, key, Len(key), alloc))
        /\ ret' = VoidRet

RecordSet ==
    \E key \in Keys :
      \E alloc \in AllocChoices(Reg, key) :
        /\ Called([name |-> "record_set", now |-> 0])
        /\ SetReg(stats_prefix_record_set(Reg, key, Len(key), alloc))
        /\ ret' = VoidRet

RecordByteTotalChange ==
    \E key \in Keys, bytes \in Deltas, flags \in PrefixFlagSets :
      \E alloc \in AllocChoices(Reg, key) :
        /\ Called([name |-> "record_byte_total_change", now |-> current_time])
        /\ SetReg(stats_prefix_record_byte_total_change(
                      Reg, key, Len(key), bytes, flags, alloc, current_time))
        /\ ret' = VoidRet

RecordRemoval ==
    \E key \in Keys, bytes \in ByteSizes, flags \in UnlinkFlagSets :
      \E alloc \in AllocChoices(Reg, key) :
        /\ Called([name |-> "record_removal", now |-> current_time])
        /\ SetReg(stats_prefix_record_removal(
                      Reg, key, Len(key), bytes, flags, alloc, current_time))
        /\ ret' = VoidRet

Dump ==
    \E malloc_ok \in BOOLEAN :
      LET d == stats_prefix_dump(Reg, current_time, malloc_ok) IN
        /\ CalledAdmin([name |-> "dump", now |-> current_time])
        /\ SetReg(d.reg)
        /\ ret' = [returned |-> d.returned, buf |-> d.buf, length |-> d.length,
                   size |-> d.size]

Clear ==
    /\ CalledAdmin([name |-> "clear", now |-> 0])
    /\ SetReg(stats_prefix_clear(Reg))
    /\ ret' = VoidRet

\* the timer advances the coarse clock
Tick ==
    /\ UNCHANGED size_buckets
    /\ current_time < MaxTime
    /\ current_time' = current_time + 1
    /\ UNCHANGED <<prefix_stats, num_prefixes, total_prefix_size, wildcard,
                   hash_mul, call, ret, calls, admin, mtvars>>

Next ==
    \/ RecordGet
    \/ RecordDelete
    \/ RecordSet
    \/ RecordByteTotalChange
    \/ RecordRemoval
    \/ Dump
    \/ Clear
    \/ Tick

Spec == Init /\ [][Next]_vars

(***************************************************************************)
(* The threaded program: every call is entered, takes the stats lock, runs *)
(* its body and releases the lock.  stats_prefix_dump reads current_time   *)
(* into its local now before it takes the lock; the record_* handlers read *)
(* it inside.  stats_prefix_clear is called as the comment above it says,  *)
(* by a caller that holds the global stats lock, and takes                 *)
(* GLOBAL_STATS_LOCK() itself.                                             *)
(***************************************************************************)
\* the keys the threads use: one without a delimiter, one with
MTKeys == {k \in Keys : Len(k) = MaxKeyLen /\ k[1] # prefix_delimiter}

Enter(t, q) ==
    /\ UNCHANGED size_buckets
    /\ pc[t] = "idle"
    /\ calls + admin < MaxMTCalls
    /\ pc' = [pc EXCEPT ![t] = IF q.name = "clear" THEN "caller_lock" ELSE "lock"]
    /\ req' = [req EXCEPT ![t] = q]
    /\ call' = [name |-> q.name, now |-> q.now]
    /\ UNCHANGED <<prefix_stats, num_prefixes, total_prefix_size, wildcard,
                   current_time, hash_mul, ret, lock>>

EnterRecord(t) ==
    /\ \/ \E key \in MTKeys, nbytes \in ByteSizes, is_hit \in BOOLEAN :
            Enter(t, [NoReq EXCEPT !.name = "record_get", !.key = key,
                                   !.bytes = nbytes, !.is_hit = is_hit])
       \/ \E key \in MTKeys :
            Enter(t, [NoReq EXCEPT !.name = "record_delete", !.key = key])
       \/ \E key \in MTKeys :
            Enter(t, [NoReq EXCEPT !.name = "record_set", !.key = key])
       \/ \E key \in MTKeys, bytes \in Deltas, flags \in PrefixFlagSets :
            Enter(t, [NoReq EXCEPT !.name = "record_byte_total_change", !.key = key,
                                   !.bytes = bytes, !.flags = flags])
       \/ \E key \in MTKeys, bytes \in ByteSizes, flags \in UnlinkFlagSets :
            Enter(t, [NoReq EXCEPT !.name = "record_removal", !.key = key,
                                   !.bytes = bytes, !.flags = flags])
    /\ calls' = calls + 1
    /\ admin' = admin

\* rel_time_t now = current_time, ahead of GLOBAL_STATS_LOCK
EnterDump(t) ==
    /\ Enter(t, [NoReq EXCEPT !.name = "dump", !.now = current_time])
    /\ admin' = admin + 1
    /\ calls' = calls

EnterClear(t) ==
    /\ Enter(t, [NoReq EXCEPT !.name = "clear"])
    /\ admin' = admin + 1
    /\ calls' = calls

\* the caller of stats_prefix_clear takes the global stats lock before the call
CallerLock(t) ==
    /\ UNCHANGED size_buckets
    /\ pc[t] = "caller_lock"
    /\ lock = 0
    /\ lock' = t
    /\ pc' = [pc EXCEPT ![t] = "lock"]
    /\ UNCHANGED <<prefix_stats, num_prefixes, total_prefix_size, wildcard,
                   current_time, hash_mul, call, ret, calls, admin, req>>

\* GLOBAL_STATS_LOCK() by the thread that holds the lock: a mutex that counts
\* its owner's locks lets it in, any other leaves it waiting for itself
Relock(t) ==
    /\ UNCHANGED size_buckets
    /\ pc[t] = "lock"
    /\ lock = t
    /\ \E outcome \in {"body", "blocked"} : pc' = [pc EXCEPT ![t] = outcome]
    /\ UNCHANGED <<prefix_stats, num_prefixes, total_prefix_size, wildcard,
                   current_time, hash_mul, call, ret, calls, admin, req, lock>>

\* GLOBAL_STATS_LOCK()
Acquire(t) ==
    /\ UNCHANGED size_buckets
    /\ pc[t] = "lock"
    /\ lock = 0
    /\ lock' = t
    /\ pc' = [pc EXCEPT ![t] = "body"]
    /\ UNCHANGED <<prefix_stats, num_prefixes, total_prefix_size, wildcard,
                   current_time, hash_mul, call, ret, calls, admin, req>>

\* the handler bodies; the record handlers read the clock here
RunHandler(r, q, now) ==
    CASE q.name = "record_get" ->
           stats_prefix_record_get(r, q.key, Len(q.key), q.bytes, q.is_hit, q.alloc)
      [] q.name = "record_delete" ->
           stats_prefix_record_delete(r, q.key, Len(q.key), q.alloc)
      [] q.name = "record_set" ->
           stats_prefix_record_set(r, q.key, Len(q.key), q.alloc)
      [] q.name = "record_byte_total_change" ->
           stats_prefix_record_byte_total_change(r, q.key, Len(q.key), q.bytes,
                                                 q.flags, q.alloc, now)
      [] q.name = "record_removal" ->
           stats_prefix_record_removal(r, q.key, Len(q.key), q.bytes, q.flags,
                                       q.alloc, now)
      [] q.name = "clear" -> stats_prefix_clear(r)

Body(t) ==
    /\ UNCHANGED size_buckets
    /\ pc[t] = "body"
    /\ req[t].name # "dump"
    /\ \E alloc \in AllocOutcomes :
         SetReg(RunHandler(Reg, [req[t] EXCEPT !.alloc = alloc], current_time))
    /\ ret' = VoidRet
    /\ pc' = [pc EXCEPT ![t] = "unlock"]
    /\ UNCHANGED <<current_time, hash_mul, call, calls, admin, req, lock>>

DumpBody(t) ==
    /\ UNCHANGED size_buckets
    /\ pc[t] = "body"
    /\ req[t].name = "dump"
    /\ \E malloc_ok \in BOOLEAN :
         LET d == stats_prefix_dump(Reg, req[t].now, malloc_ok) IN
           /\ SetReg(d.reg)
           /\ ret' = [returned |-> d.returned, buf |-> d.buf, length |-> d.length,
                      size |-> d.size]
    /\ pc' = [pc EXCEPT ![t] = "unlock"]
    /\ UNCHANGED <<current_time, hash_mul, call, calls, admin, req, lock>>

\* GLOBAL_STATS_UNLOCK()
Release(t) ==
    /\ UNCHANGED size_buckets
    /\ pc[t] = "unlock"
    /\ req[t].name # "clear"
    /\ lock = t
    /\ lock' = 0
    /\ pc' = [pc EXCEPT ![t] = "idle"]
    /\ UNCHANGED <<prefix_stats, num_prefixes, total_prefix_size, wildcard,
                   current_time, hash_mul, call, ret, calls, admin, req>>

\* GLOBAL_STATS_UNLOCK() of stats_prefix_clear: the caller's lock is still held
ReleaseInner(t) ==
    /\ UNCHANGED size_buckets
    /\ pc[t] = "unlock"
    /\ req[t].name = "clear"
    /\ lock = t
    /\ pc' = [pc EXCEPT ![t] = "caller_unlock"]
    /\ UNCHANGED <<prefix_stats, num_prefixes, total_prefix_size, wildcard,
                   current_time, hash_mul, call, ret, calls, admin, req, lock>>

\* the caller of stats_prefix_clear releases the global stats lock
CallerUnlock(t) ==
    /\ UNCHANGED size_buckets
    /\ pc[t] = "caller_unlock"
    /\ lock = t
    /\ lock' = 0
    /\ pc' = [pc EXCEPT ![t] = "idle"]
    /\ UNCHANGED <<prefix_stats, num_prefixes, total_prefix_size, wildcard,
                   current_time, hash_mul, call, ret, calls, admin, req>>

NextMT ==
    \/ \E t \in Threads : EnterRecord(t)
    \/ \E t \in Threads : EnterDump(t)
    \/ \E t \in Threads : EnterClear(t)
    \/ \E t \in Threads : Acquire(t)
    \/ \E t \in Threads : Body(t)
    \/ \E t \in Threads : DumpBody(t)
    \/ \E t \in Threads : Release(t)
    \/ \E t \in Threads : CallerLock(t)
    \/ \E t \in Threads : Relock(t)
    \/ \E t \in Threads : ReleaseInner(t)
    \/ \E t \in Threads : CallerUnlock(t)
    \/ Tick

SpecMT == Init /\ [][NextMT]_vars

\* what a thread inside a call does next
Step(t) ==
    \/ CallerLock(t)
    \/ Acquire(t)
    \/ Relock(t)
    \/ Body(t)
    \/ DumpBody(t)
    \/ Release(t)
    \/ ReleaseInner(t)
    \/ CallerUnlock(t)

(***************************************************************************)
(* The dump with every counter at its full width.  A 64-bit value is kept  *)
(* as five base-10^4 limbs, lowest first, so that 2^64 - 1 and its twenty  *)
(* digits are the real ones; num_items is kept the same way.               *)
(***************************************************************************)
Base == 10 ^ 4
TwoTo64 == <<1616, 955, 737, 6744, 1844>>       \* 18446744073709551616
UINT64_MAX == <<1615, 955, 737, 6744, 1844>>    \* 18446744073709551615
UINT32_MAX == <<7295, 4967, 42, 0, 0>>          \* 4294967295
LimbIdx == 1..Len(TwoTo64)

RECURSIVE DropLimbs(_, _)
\* n without its k lowest limbs
DropLimbs(n, k) == IF k = 0 THEN n ELSE DropLimbs(n \div Base, k - 1)

\* a small number as limbs
Wide(n) == [i \in LimbIdx |-> DropLimbs(n, i - 1) % Base]

RECURSIVE Carry(_, _, _)
\* the carry into limb i of a + b
Carry(a, b, i) ==
    IF i = 1 THEN 0 ELSE (a[i - 1] + b[i - 1] + Carry(a, b, i - 1)) \div Base

\* a + b, below 10^20
AddWide(a, b) == [i \in LimbIdx |-> (a[i] + b[i] + Carry(a, b, i)) % Base]

RECURSIVE Borrow(_, _, _)
\* the borrow out of limb i - 1 of a - b
Borrow(a, b, i) ==
    IF i = 1 THEN 0
    ELSE IF a[i - 1] - b[i - 1] - Borrow(a, b, i - 1) < 0 THEN 1 ELSE 0

\* a - b, for a >= b
SubWide(a, b) == [i \in LimbIdx |-> (a[i] - b[i] - Borrow(a, b, i)) % Base]

\* a >= b: at the highest limb where they differ, a's is the larger
GeqWide(a, b) ==
    \A i \in LimbIdx : (\A j \in LimbIdx : j > i => a[j] = b[j]) => a[i] >= b[i]

\* uint64_t addition
Add64(a, b) ==
    LET sum == AddWide(a, b) IN
    IF GeqWide(sum, TwoTo64) THEN SubWide(sum, TwoTo64) ELSE sum

\* uint64_t product with a small factor
RECURSIVE Mul64(_, _)
Mul64(a, k) == IF k = 0 THEN Wide(0) ELSE Add64(a, Mul64(a, k - 1))

\* a limb below the highest: its digits, zeros in front
LimbDigits(n) ==
    Digit(n \div 1000) \o Digit((n \div 100) % 10) \o Digit((n \div 10) % 10)
        \o Digit(n % 10)

RECURSIVE LowerLimbs(_, _)
LowerLimbs(w, i) == IF i = 0 THEN "" ELSE LimbDigits(w[i]) \o LowerLimbs(w, i - 1)

\* %u and %llu of a value kept as limbs
DecWide(w) ==
    LET used == {i \in LimbIdx : w[i] # 0}
        top == IF used = {} THEN 1 ELSE CHOOSE i \in used : \A j \in used : j <= i
    IN Dec(w[top]) \o LowerLimbs(w, top - 1)

LineArgsWide(name, pfs) ==
    <<name, DecWide(pfs.num_items), DecWide(pfs.num_gets), DecWide(pfs.num_hits),
      DecWide(pfs.num_sets), DecWide(pfs.num_deletes), DecWide(pfs.num_evicts),
      DecWide(pfs.num_overwrites), DecWide(pfs.num_expires), DecWide(pfs.num_bytes),
      DecWide(pfs.bytes_txed), DecWide(pfs.total_byte_seconds)>>

FlushAlwaysWide(pfs, now) ==
    [pfs EXCEPT !.total_byte_seconds =
                    Add64(@, Mul64(pfs.num_bytes, (now - pfs.last_update) % U32)),
                !.last_update = now]

RECURSIVE DumpChainWide(_, _, _, _, _)
DumpChainWide(chain, i, now, size, acc) ==
    IF i > Len(chain) THEN acc
    ELSE LET pfs == FlushAlwaysWide(chain[i], now)
             text == Printf(STATS_PREFIX_DUMP_FORMAT,
                            LineArgsWide(StrN(pfs.prefix, pfs.prefix_len), pfs))
         IN DumpChainWide(chain, i + 1, now, size,
                      [chain |-> Append(acc.chain, pfs),
                       out |-> append_to_buffer(acc.out, size, sizeof(terminator[1]), text)])

RECURSIVE DumpBucketsWide(_, _, _, _, _)
DumpBucketsWide(r, i, now, size, acc) ==
    IF i >= PREFIX_HASH_SIZE THEN acc
    ELSE LET c == DumpChainWide(r.prefix_stats[i], 1, now, size,
                                [chain |-> <<>>, out |-> acc.out])
         IN DumpBucketsWide(r, NextUsedBucket(r, i + 1), now, size,
                            [table |-> SetChain(acc.table, i, c.chain), out |-> c.out])

WildcardActiveWide(w) ==
    w.num_gets # Wide(0) \/ w.num_sets # Wide(0) \/ w.num_deletes # Wide(0)

stats_prefix_dump_wide(r, now, malloc_ok) ==
    LET size == DumpBufferSize(r.total_prefix_size, r.num_prefixes) IN
    IF ~malloc_ok
    THEN [reg |-> r, returned |-> "NULL", buf |-> <<>>, length |-> 0, size |-> size]
    ELSE
      LET walked == DumpBucketsWide(r, NextUsedBucket(r, 0), now, size,
                                    [table |-> r.prefix_stats,
                                     out |-> [buf |-> <<>>, offset |-> 0]])
          w == FlushAlwaysWide(r.wildcard, now)
          withWild == IF WildcardActiveWide(w)
                      THEN append_to_buffer(walked.out, size, sizeof(terminator[1]),
                               Printf(STATS_PREFIX_DUMP_FORMAT,
                                      LineArgsWide(StrN(wildcard_name, sizeof(wildcard_name) - 1), w)))
                      ELSE walked.out
          done == append_to_buffer(withWild, size, 0, Printf(terminator, <<>>))
      IN [reg |-> [r EXCEPT !.prefix_stats = walked.table, !.wildcard = w],
          returned |-> "buf", buf |-> done.buf, length |-> done.offset, size |-> size]

\* the chain slots of r, one per linked accumulator: <<bucket, place in the chain>>
Slots(r) ==
    UNION {{<<b, i>> : i \in 1..Len(r.prefix_stats[b])} : b \in UsedBuckets(r)}

At(r, slot) == r.prefix_stats[slot[1]][slot[2]]

(***************************************************************************)
(* The dump applied to registries whose counters have grown large: the     *)
(* registry is built by stats_prefix_find and every accumulator is given   *)
(* counter values up to the largest its fields hold.                       *)
(***************************************************************************)
Values64 == {Wide(0), Wide(MaxBytes), UINT64_MAX}
Values32 == {Wide(0), UINT32_MAX}

\* an accumulator with its item count at items and its 64-bit counters at v
Grow(s, items, v) ==
    [s EXCEPT !.num_items = items, !.num_gets = v, !.num_hits = v, !.num_sets = v,
              !.num_deletes = v, !.num_evicts = v, !.num_overwrites = v,
              !.num_expires = v, !.num_bytes = v, !.bytes_txed = v,
              !.total_byte_seconds = v]

RECURSIVE FindAll(_, _)
\* the registry after stats_prefix_find of each key of ks
FindAll(r, ks) ==
    IF ks = <<>> THEN r
    ELSE FindAll(stats_prefix_find(r, Head(ks), Len(Head(ks)), "ok").reg, Tail(ks))

SizeKeys == {k \in Keys : Len(k) > 0 /\ k[Len(k)] = prefix_delimiter}

RECURSIVE RunsUpTo(_)
\* the runs of at most n keys
RunsUpTo(n) ==
    IF n = 0 THEN {<<>>}
    ELSE RunsUpTo(n - 1) \cup {Append(ks, k) : ks \in RunsUpTo(n - 1), k \in SizeKeys}

KeyRuns == RunsUpTo(MaxPrefixes)

InitSize ==
    /\ InitBuckets
    /\ current_time = 0
    /\ hash_mul \in 0..MaxHashMul
    /\ \E ks \in KeyRuns :
         LET r == FindAll(EmptyReg, ks) IN
         \E items \in [Slots(r) -> Values32], v \in [Slots(r) -> Values64],
            witems \in Values32, wv \in Values64 :
             LET chains == [b \in UsedBuckets(r) |->
                              [i \in 1..Len(r.prefix_stats[b]) |->
                                  Grow(r.prefix_stats[b][i], items[<<b, i>>], v[<<b, i>>])]]
             IN /\ prefix_stats = chains
                /\ num_prefixes = r.num_prefixes
                /\ total_prefix_size = r.total_prefix_size
                /\ wildcard = Grow(ZeroStats(0), witems, wv)
    /\ call = [name |-> "none", now |-> 0]
    /\ ret = NoRet
    /\ calls = 0
    /\ admin = 0
    /\ pc = [t \in Threads |-> "idle"]
    /\ req = [t \in Threads |-> NoReq]
    /\ lock = 0

DumpSize ==
    \E malloc_ok \in BOOLEAN :
        LET d == stats_prefix_dump_wide(Reg, current_time, malloc_ok) IN
          /\ CalledAdmin([name |-> "dump", now |-> current_time])
          /\ SetReg(d.reg)
          /\ ret' = [returned |-> d.returned, buf |-> d.buf,
                     length |-> d.length, size |-> d.size]

NextSize == DumpSize \/ Tick

SpecSize == InitSize /\ [][NextSize]_vars

(***************************************************************************)
(* The program that feeds and dumps the size histograms.                   *)
(***************************************************************************)
\* the slots of the histograms: range and index
BucketSlots ==
    UNION {{<<r, j>> : j \in 0..(SlotsOf(BUCKETS[r]) - 1)} : r \in 1..Len(BUCKETS)}

\* counter ++ of slot j of range r
Bump(counts, r, j) == [counts EXCEPT ![r][j + 1] = (@ + 1) % U64]

\* what a histogram step leaves alone
BucketsFrame ==
    UNCHANGED <<prefix_stats, num_prefixes, total_prefix_size, wildcard,
                current_time, hash_mul, mtvars>>

\* an event of an item whose size falls in slot j of range r is counted
BucketsEvent ==
    /\ calls < MaxCalls
    /\ calls' = calls + 1
    /\ \E slot \in BucketSlots :
         LET r == slot[1]
             j == slot[2]
         IN \/ set' = Bump(set, r, j)
               /\ UNCHANGED <<hit, evict, delete, overwrite, expires>>
            \/ hit' = Bump(hit, r, j)
               /\ UNCHANGED <<set, evict, delete, overwrite, expires>>
            \/ evict' = Bump(evict, r, j)
               /\ UNCHANGED <<set, hit, delete, overwrite, expires>>
            \/ delete' = Bump(delete, r, j)
               /\ UNCHANGED <<set, hit, evict, overwrite, expires>>
            \/ overwrite' = Bump(overwrite, r, j)
               /\ UNCHANGED <<set, hit, evict, delete, expires>>
            \/ expires' = Bump(expires, r, j)
               /\ UNCHANGED <<set, hit, evict, delete, overwrite>>
    /\ call' = [name |-> "event", now |-> 0]
    /\ ret' = VoidRet
    /\ admin' = admin
    /\ BucketsFrame

ItemStatsBuckets ==
    /\ admin < MaxAdmin
    /\ admin' = admin + 1
    /\ \E malloc_ok \in BOOLEAN :
         LET d == item_stats_buckets(Hist, malloc_ok)
         IN ret' = [returned |-> d.returned, buf |-> d.buf, length |-> d.bytes,
                    size |-> bufsize]
    /\ call' = [name |-> "item_stats_buckets", now |-> 0]
    /\ calls' = calls
    /\ UNCHANGED size_buckets
    /\ BucketsFrame

\* stats_buckets_init: five memsets; expires is not among them
StatsBucketsInit ==
    /\ admin < MaxAdmin
    /\ admin' = admin + 1
    /\ set' = NoCounts
    /\ hit' = NoCounts
    /\ evict' = NoCounts
    /\ delete' = NoCounts
    /\ overwrite' = NoCounts
    /\ expires' = expires
    /\ call' = [name |-> "stats_buckets_init", now |-> 0]
    /\ ret' = VoidRet
    /\ calls' = calls
    /\ BucketsFrame

NextBuckets ==
    \/ BucketsEvent
    \/ ItemStatsBuckets
    \/ StatsBucketsInit

SpecBuckets == Init /\ [][NextBuckets]_vars

(***************************************************************************)
(* What the properties speak of: keys, prefixes, the accumulator of a key. *)
(***************************************************************************)
HasDelimiter(key) == \E i \in 1..Len(key) : key[i] = prefix_delimiter

\* the bytes before the first delimiter
PrefixOf(key) ==
    LET first == CHOOSE i \in 1..Len(key) :
                     /\ key[i] = prefix_delimiter
                     /\ \A j \in 1..(i - 1) : key[j] # prefix_delimiter
    IN SubSeq(key, 1, first - 1)

DelimitedKeys == {k \in Keys : HasDelimiter(k)}
PlainKeys == Keys \ DelimitedKeys

\* an accumulator's fields, its address left out
Fields(s) == [s EXCEPT !.addr = 0]

\* the accumulators of r that hold the prefix of key
Holding(r, key) == {s \in Linked(r) : s.prefix = PrefixOf(key)}

\* the fields of the accumulator key resolves to; a prefix not yet seen starts zeroed
AccOf(r, key) ==
    IF ~HasDelimiter(key) THEN Fields(r.wildcard)
    ELSE IF Holding(r, key) # {}
         THEN Fields(CHOOSE s \in Holding(r, key) : TRUE)
         ELSE [ZeroStats(0) EXCEPT !.prefix = PrefixOf(key),
                                   !.prefix_len = Len(PrefixOf(key))]

\* every accumulator other than the one key resolves to
OthersOf(r, key) ==
    IF HasDelimiter(key)
    THEN <<{r.wildcard}, {s \in Linked(r) : s.prefix # PrefixOf(key)}>>
    ELSE <<{}, Linked(r)>>

(***************************************************************************)
(* C1: the registry holds at most one accumulator per prefix byte string,  *)
(* and two keys with a delimiter resolve to the same accumulator exactly   *)
(* when their prefixes are the same bytes; a prefix that is a proper       *)
(* byte-prefix of another has its own accumulator, in one bucket or two.   *)
(***************************************************************************)
C1_OnePerPrefix ==
    /\ \A s1 \in Slots(Reg), s2 \in Slots(Reg) :
          s1 # s2 => /\ At(Reg, s1).prefix # At(Reg, s2).prefix
                     /\ At(Reg, s1).addr # At(Reg, s2).addr
    /\ \A k1 \in DelimitedKeys, k2 \in DelimitedKeys :
          LET f1 == stats_prefix_find(Reg, k1, Len(k1), "ok")
              f2 == stats_prefix_find(f1.reg, k2, Len(k2), "ok")
              again == stats_prefix_find(f2.reg, k1, Len(k1), "ok")
          IN /\ f1.pfs.kind = "heap" /\ f2.pfs.kind = "heap"
             /\ SamePtr(again.pfs, f1.pfs)
             /\ SamePtr(f1.pfs, f2.pfs) <=> (PrefixOf(k1) = PrefixOf(k2))

\* two accumulators, one's prefix a proper byte-prefix of the other's, in one bucket
C1_Witness ==
    \E b \in UsedBuckets(Reg) :
        /\ Len(prefix_stats[b]) = 2
        /\ prefix_stats[b][2].prefix_len < prefix_stats[b][1].prefix_len
        /\ prefix_stats[b][2].prefix =
              SubSeq(prefix_stats[b][1].prefix, 1, prefix_stats[b][2].prefix_len)

C3_RecordGet ==
    \A key \in Keys, nbytes \in ByteSizes, is_hit \in BOOLEAN :
        LET old == AccOf(Reg, key)
            after == stats_prefix_record_get(Reg, key, Len(key), nbytes, is_hit, "ok")
            new == AccOf(after, key)
        IN /\ is_hit => new = [old EXCEPT !.num_gets = @ + 1, !.num_hits = @ + 1,
                                          !.bytes_txed = @ + nbytes]
           /\ ~is_hit => new = [old EXCEPT !.num_gets = @ + 1]
           /\ OthersOf(after, key) = OthersOf(Reg, key)

\* a miss and then a hit were recorded for one prefix
C3_Witness ==
    /\ call.name = "record_get"
    /\ \E s \in Linked(Reg) : s.num_gets = 2 /\ s.num_hits = 1 /\ s.bytes_txed = 1

ByteFields(s) == <<s.num_items, s.num_bytes>>

\* the wildcard's item count and byte total, and those of every prefix where
\* either is not zero
NonZeroBytes(r) ==
    <<ByteFields(r.wildcard),
      {<<s.prefix, s.num_items, s.num_bytes>> :
          s \in {x \in Linked(r) : ByteFields(x) # <<0, 0>>}}>>

(***************************************************************************)
(* C4: record_set adds 1 to sets and to nothing else; item count and byte  *)
(* total stay zero until a byte-total change or a removal is recorded:     *)
(* get, delete, set and dump leave them as they are and clear zeroes them. *)
(***************************************************************************)
C4_RecordSet ==
    /\ \A key \in Keys :
        LET old == AccOf(Reg, key)
            after == stats_prefix_record_set(Reg, key, Len(key), "ok")
            deleted == stats_prefix_record_delete(Reg, key, Len(key), "ok")
        IN /\ AccOf(after, key) = [old EXCEPT !.num_sets = @ + 1]
           /\ OthersOf(after, key) = OthersOf(Reg, key)
           /\ NonZeroBytes(after) = NonZeroBytes(Reg)
           /\ NonZeroBytes(deleted) = NonZeroBytes(Reg)
           /\ \A is_hit \in BOOLEAN :
                NonZeroBytes(stats_prefix_record_get(Reg, key, Len(key), MaxBytes,
                                                     is_hit, "ok"))
                   = NonZeroBytes(Reg)
    /\ NonZeroBytes(stats_prefix_dump(Reg, current_time, TRUE).reg) = NonZeroBytes(Reg)
    /\ NonZeroBytes(stats_prefix_clear(Reg)) = <<(<<0, 0>>), {}>>
    /\ (calls = 0 \/ call.name = "clear") => NonZeroBytes(Reg) = <<(<<0, 0>>), {}>>

\* two sets recorded for one prefix, which still holds no item and no byte
C4_Witness ==
    /\ call.name = "record_set"
    /\ \E s \in Linked(Reg) : s.num_sets = 2 /\ s.num_items = 0 /\ s.num_bytes = 0

DumpAfterDump ==
    /\ call.name = "dump" /\ ret.returned = "buf"
    /\ call'.name = "dump" /\ ret'.returned = "buf"
    /\ admin' = admin + 1

Grown(old, new, k) ==
    /\ new.total_byte_seconds = (old.total_byte_seconds + old.num_bytes * k) % U64
    /\ old.total_byte_seconds + old.num_bytes * k < U64
          => new.total_byte_seconds - old.total_byte_seconds = old.num_bytes * k
    /\ new.last_update = call'.now
    /\ new.num_bytes = old.num_bytes

(***************************************************************************)
(* C5: when a dump that returned a buffer is followed by another such dump *)
(* k clock ticks later with no call in between, every accumulator's        *)
(* total_byte_seconds grows by exactly num_bytes * k (in the counter's     *)
(* width), its last_update becomes the second dump's clock reading and     *)
(* its num_bytes stays as it was.                                          *)
(***************************************************************************)
C5_TwoDumps ==
    [][DumpAfterDump =>
          /\ call'.now = current_time
          /\ Slots(Reg') = Slots(Reg)
          /\ \A s \in Slots(Reg) : Grown(At(Reg, s), At(Reg', s), call'.now - call.now)
          /\ Grown(wildcard, wildcard', call'.now - call.now)]_vars

\* a second dump, one tick after the first, has added the byte total of a prefix once
C5_Witness ==
    /\ call = [name |-> "dump", now |-> 1]
    /\ admin = 2
    /\ ret.returned = "buf"
    /\ \E s \in Linked(Reg) :
          s.num_bytes = MaxBytes /\ s.total_byte_seconds = MaxBytes /\ s.last_update = 1

(***************************************************************************)
(* C6: clear leaves no accumulator, zero num_prefixes and                  *)
(* total_prefix_size and a zeroed wildcard, so a dump right after it       *)
(* returns exactly "END\r\n" and reports the length 5, as a dump of a      *)
(* registry never used does.                                               *)
(***************************************************************************)
C6_ClearThenDump ==
    LET cleared == stats_prefix_clear(Reg)
        d == stats_prefix_dump(cleared, current_time, TRUE)
    IN /\ cleared.prefix_stats = NoChains
       /\ cleared.num_prefixes = 0
       /\ cleared.total_prefix_size = 0
       /\ \A f \in DOMAIN cleared.wildcard \ {"prefix"} : cleared.wildcard[f] = 0
       /\ cleared.wildcard.prefix = <<>>
       /\ d.returned = "buf"
       /\ d.buf = stats_prefix_dump(EmptyReg, current_time, TRUE).buf
       /\ d.buf = <<"END\r\n">>
       /\ d.length = 5
       /\ Len(d.buf[1]) = d.length
       /\ call.name = "clear" => Reg = cleared

\* clear has just run, after MaxCalls record_* calls, and a dump may follow
C6_Witness ==
    /\ call.name = "clear"
    /\ calls = MaxCalls
    /\ admin < MaxAdmin
    /\ prefix_stats = NoChains
    /\ ~WildcardActive(wildcard)

\* slot s comes before slot t in the output
Before(s, t) == s[1] < t[1] \/ (s[1] = t[1] /\ s[2] < t[2])

\* the place of slot s among the lines
Rank(r, s) == Cardinality({t \in Slots(r) : Before(t, s)}) + 1

LineOf(name, s) == Printf(STATS_PREFIX_DUMP_FORMAT, LineArgs(name, s))

RECURSIVE BytesIn(_)
\* the bytes of the pieces written to the buffer
BytesIn(buf) == IF buf = <<>> THEN 0 ELSE Len(Head(buf)) + BytesIn(Tail(buf))

LineOfWide(name, s) == Printf(STATS_PREFIX_DUMP_FORMAT, LineArgsWide(name, s))

(***************************************************************************)
(* C8: whatever the counters hold, up to 2^64 - 1 (num_items up to         *)
(* 2^32 - 1), a dump that returns a buffer has written no more bytes than  *)
(* the size computed before writing; every PREFIX line, the wildcard line  *)
(* when present and the terminator are in the buffer whole, and the        *)
(* returned length is the number of bytes written.                         *)
(***************************************************************************)
C8_DumpFits ==
    (call.name = "dump" /\ ret.returned = "buf") =>
        LET n == Cardinality(Slots(Reg))
            w == IF WildcardActiveWide(wildcard) THEN 1 ELSE 0
        IN /\ ret.size = DumpBufferSize(total_prefix_size, num_prefixes)
           /\ ret.length = BytesIn(ret.buf)
           /\ ret.length < ret.size
           /\ Len(ret.buf) = n + w + 1
           /\ \A s \in Slots(Reg) :
                 ret.buf[Rank(Reg, s)] =
                    LineOfWide(StrN(At(Reg, s).prefix, At(Reg, s).prefix_len), At(Reg, s))
           /\ w = 1 => ret.buf[n + 1] = LineOfWide("*wildcard*", wildcard)
           /\ ret.buf[n + w + 1] = "END\r\n"

\* the longest line there is, of twenty-digit counters and a ten-digit item
\* count, written for two prefixes and for the wildcard
C8_Witness ==
    /\ call.name = "dump"
    /\ ret.returned = "buf"
    /\ Len(ret.buf) = MaxPrefixes + 2
    /\ wildcard.num_gets = UINT64_MAX
    /\ wildcard.num_items = UINT32_MAX
    /\ \A s \in Slots(Reg) : /\ At(Reg, s).total_byte_seconds = UINT64_MAX
                             /\ At(Reg, s).num_items = UINT32_MAX
    /\ \E s \in Slots(Reg) :
          Len(ret.buf[Rank(Reg, s)]) =
             strlen(STATS_PREFIX_DUMP_FORMAT) + At(Reg, s).prefix_len + 164

ByAddr(r, a) == CHOOSE s \in Linked(r) : s.addr = a

ClearBody ==
    \E t \in Threads : pc[t] = "body" /\ req[t].name = "clear" /\ pc'[t] = "unlock"

NotLowered(old, new) ==
    /\ new.last_update >= old.last_update
    /\ new.total_byte_seconds >= old.total_byte_seconds

(***************************************************************************)
(* C9: with threads calling the operations concurrently and a clock that   *)
(* never goes back, no step other than the body of clear lowers the        *)
(* last_update or the total_byte_seconds of an accumulator, the wildcard   *)
(* included; in particular the body of a dump does not.                    *)
(***************************************************************************)
C9_NeverBackward ==
    [][ClearBody \/
         /\ NotLowered(wildcard, wildcard')
         /\ \A a \in HeapAddrs(Reg) \cap HeapAddrs(Reg') :
               NotLowered(ByAddr(Reg, a), ByAddr(Reg', a))]_vars

\* what the call q can leave when made alone at clock reading now, one registry
\* for each answer of the allocator
RunAlone(r, q, now) ==
    IF q.name = "dump" THEN {stats_prefix_dump(r, now, ok).reg : ok \in BOOLEAN}
    ELSE {RunHandler(r, [q EXCEPT !.alloc = alloc], now) : alloc \in AllocOutcomes}

RECURSIVE SerialOutcomes(_, _, _)
\* the registries left by the calls of the threads T made one after another from r,
\* in any order, the clock at earliest or later at each
SerialOutcomes(r, T, earliest) ==
    IF T = {} THEN {r}
    ELSE UNION {UNION {SerialOutcomes(after, T \ {t}, now) :
                          after \in RunAlone(r, req[t], now)} :
                   t \in T, now \in earliest..current_time}

(***************************************************************************)
(* C10: the operations run one at a time under the lock, so once every     *)
(* thread has made one call and all have returned, the registry is one     *)
(* that the same calls leave when made one after another, in some order,   *)
(* each at one reading of a clock that never goes back.                    *)
(***************************************************************************)
C10_SerialOrder ==
    (/\ \A t \in Threads : pc[t] = "idle" /\ req[t].name # "none"
     /\ calls + admin = NThreads)
        => Reg \in SerialOutcomes(EmptyReg, Threads, 0)

\* the allocator's answers that make stats_prefix_find fail
Failures == AllocOutcomes \ {"ok"}

\* the registries the record_* calls leave for key when the allocator answers alloc
RecordOutcomes(r, key, alloc, now) ==
    {stats_prefix_record_get(r, key, Len(key), n, h, alloc) :
        n \in ByteSizes, h \in BOOLEAN}
    \cup {stats_prefix_record_delete(r, key, Len(key), alloc),
          stats_prefix_record_set(r, key, Len(key), alloc)}
    \cup {stats_prefix_record_byte_total_change(r, key, Len(key), d, f, alloc, now) :
             d \in Deltas, f \in PrefixFlagSets}
    \cup {stats_prefix_record_removal(r, key, Len(key), n, f, alloc, now) :
             n \in ByteSizes, f \in UnlinkFlagSets}

(***************************************************************************)
(* C11: when the accumulator or the copy of its prefix cannot be           *)
(* allocated, stats_prefix_find returns NULL and every record_* call       *)
(* leaves the whole state as it was: no counter, no chain, num_prefixes    *)
(* and total_prefix_size unchanged; a later call for the same prefix, the  *)
(* allocator answering, creates the accumulator.                           *)
(***************************************************************************)
C11_AllocFailure ==
    \A key \in {k \in DelimitedKeys : Holding(Reg, k) = {}}, alloc \in Failures :
        LET f == stats_prefix_find(Reg, key, Len(key), alloc)
            later == stats_prefix_record_get(f.reg, key, Len(key), MaxBytes, FALSE, "ok")
        IN /\ f.pfs = NULL
           /\ f.reg = Reg
           /\ RecordOutcomes(Reg, key, alloc, current_time) = {Reg}
           /\ later.num_prefixes = num_prefixes + 1
           /\ later.total_prefix_size = total_prefix_size + Len(PrefixOf(key))
           /\ \E s \in Holding(later, key) : s.num_gets = 1

\* of two record_* calls one failed to allocate and left nothing; the other
\* created the accumulator and counted its get
C11_Witness ==
    /\ calls = 2
    /\ call.name = "record_get"
    /\ wildcard = ZeroStats(0)
    /\ num_prefixes = 1
    /\ \E s \in Linked(Reg) : Fields(s) = [ZeroStats(0) EXCEPT !.prefix = s.prefix,
                                                             !.prefix_len = s.prefix_len,
                                                             !.num_gets = 1]

\* the accumulators a flush at clock reading now would change
Unflushed(r, now) ==
    {s \in Linked(r) \cup {r.wildcard} : s.num_bytes # 0 /\ s.last_update < now}

\* the threads whose last call was a dump
Dumpers == {t \in Threads : req[t].name = "dump"}

(***************************************************************************)
(* C12: a dump whose malloc fails returns NULL and no output, leaves every *)
(* accumulator, last_update and total_byte_seconds included, and           *)
(* num_prefixes and total_prefix_size as they were, and has released the   *)
(* lock when it returns.                                                   *)
(***************************************************************************)
C12_DumpAllocFailure ==
    /\ \A now \in 0..MaxTime :
          LET d == stats_prefix_dump(Reg, now, FALSE)
          IN /\ d.returned = "NULL"
             /\ d.buf = <<>>
             /\ d.reg = Reg
    /\ \A t \in Dumpers :
          /\ pc[t] = "unlock" => (ret.returned = "NULL") = (ret.buf = <<>>)
          /\ pc[t] = "idle" => lock # t

\* a dump that would have flushed a stale accumulator failed and returned, the
\* lock free
C12_Witness ==
    /\ \E t \in Dumpers : pc[t] = "idle" /\ Unflushed(Reg, req[t].now) # {}
    /\ call.name = "dump"
    /\ ret.returned = "NULL"
    /\ lock = 0

(***************************************************************************)
(* C13: every call a thread has entered can go on to its return, whatever  *)
(* the allocator answers and whatever the other threads call,              *)
(* stats_prefix_clear being called by a caller that holds the global stats *)
(* lock: while a thread is inside a call some thread inside a call can     *)
(* take its next step, none waits for a lock it holds itself, and a thread *)
(* that has returned does not hold the lock.                               *)
(***************************************************************************)
C13_NoThreadStuck ==
    \A t \in Threads :
        /\ pc[t] # "idle" => \E u \in Threads : ENABLED Step(u)
        /\ pc[t] = "idle" => lock # t

\* the result of stats_prefix_find for the last of the keys, found one after
\* another from r, the allocator answering
RECURSIVE FindLast(_, _)
FindLast(r, keys) ==
    LET f == stats_prefix_find(r, Head(keys), Len(Head(keys)), "ok")
    IN IF Len(keys) = 1 THEN f.pfs ELSE FindLast(f.reg, Tail(keys))

(***************************************************************************)
(* C14: as test_prefix_find asserts, a key without a delimiter is a prefix *)
(* of its own: found first, it gets a non-null accumulator, the key        *)
(* followed by the delimiter and the key followed by the delimiter and     *)
(* more bytes then get that same accumulator, and another key without a    *)
(* delimiter gets a different, non-null one.                               *)
(***************************************************************************)
C14_TestPrefixFind ==
    \A abc \in PlainKeys \ {<<>>}, d \in KeyBytes, xyz \in PlainKeys \ {<<>>} :
        LET pfs1 == FindLast(Reg, <<abc>>)
            again == FindLast(Reg, <<abc, abc>>)
            delim == FindLast(Reg, <<abc, abc, abc \o <<prefix_delimiter>> >>)
            extra == FindLast(Reg, <<abc, abc, abc \o <<prefix_delimiter>>,
                                      abc \o <<prefix_delimiter, d>> >>)
            other == FindLast(Reg, <<abc, abc, abc \o <<prefix_delimiter>>,
                                      abc \o <<prefix_delimiter, d>>, xyz>>)
        IN /\ pfs1 # NULL
           /\ SamePtr(pfs1, again)
           /\ SamePtr(pfs1, delim)
           /\ SamePtr(pfs1, extra)
           /\ xyz # abc => (other # NULL /\ ~SamePtr(pfs1, other))

\* 1 when the flag is among flags, else 0
Flag(flags, flag) == IF flag \in flags THEN 1 ELSE 0

\* the caller has a record_* call left to make
CanRecord == calls < MaxCalls

(***************************************************************************)
(* C15: record_byte_total_change at clock reading now, on an accumulator   *)
(* with num_bytes = b and last_update = t, adds b * (now - t) to           *)
(* total_byte_seconds (b, not b + delta), sets last_update = now, then     *)
(* sets num_bytes = b + delta, adds 1 to the item count iff                *)
(* PREFIX_INCR_ITEM_COUNT is given and 1 to overwrites iff                 *)
(* PREFIX_IS_OVERWRITE is given; gets, hits, sets, deletes, evicts,        *)
(* expires and bytes_txed and every other accumulator are unchanged.       *)
(***************************************************************************)
C15_ByteTotalChange ==
    CanRecord =>
    \A key \in Keys, delta \in Deltas, flags \in PrefixFlagSets :
        LET old == AccOf(Reg, key)
            b == old.num_bytes
            t == old.last_update
            now == current_time
            after == stats_prefix_record_byte_total_change(
                         Reg, key, Len(key), delta, flags, "ok", now)
            new == AccOf(after, key)
        IN /\ now >= t
           /\ new = [old EXCEPT
                        !.total_byte_seconds = (@ + b * (now - t)) % U64,
                        !.last_update = now,
                        !.num_bytes = (b + delta) % U64,
                        !.num_items = (@ + Flag(flags, "PREFIX_INCR_ITEM_COUNT")) % U32,
                        !.num_overwrites = (@ + Flag(flags, "PREFIX_IS_OVERWRITE")) % U64]
           /\ OthersOf(after, key) = OthersOf(Reg, key)

\* an accumulator that held MaxBytes bytes since clock 0 grew by MaxBytes at clock 1
C15_Witness ==
    /\ call = [name |-> "record_byte_total_change", now |-> 1]
    /\ \E s \in Linked(Reg) : /\ s.num_bytes = 2 * MaxBytes
                               /\ s.total_byte_seconds = MaxBytes
                               /\ s.last_update = 1

\* how many evictions and how many expiries a removal with these flags counts
Reasons(flags) ==
    IF "UNLINK_IS_EVICT" \in flags THEN <<1, 0>>
    ELSE IF "UNLINK_IS_EXPIRED" \in flags THEN <<0, 1>>
    ELSE <<0, 0>>

Resolves(key) == IF HasDelimiter(key) THEN <<"prefix", PrefixOf(key)>> ELSE <<"wildcard">>

(***************************************************************************)
(* C17: record_delete adds 1 to deletes of the key's accumulator and       *)
(* changes no other field of it (no time flush), and a record_delete for a *)
(* key of another prefix leaves the accumulator, deletes included, as it   *)
(* was.                                                                    *)
(***************************************************************************)
C17_RecordDelete ==
    CanRecord =>
    \A key \in Keys :
        LET old == AccOf(Reg, key)
            after == stats_prefix_record_delete(Reg, key, Len(key), "ok")
        IN /\ AccOf(after, key) = [old EXCEPT !.num_deletes = @ + 1]
           /\ OthersOf(after, key) = OthersOf(Reg, key)
           /\ \A other \in Keys :
                 Resolves(other) # Resolves(key) => AccOf(after, other) = AccOf(Reg, other)

\* one delete was recorded for a prefix and one for a key without delimiter
C17_Witness ==
    /\ call.name = "record_delete"
    /\ wildcard = [ZeroStats(0) EXCEPT !.num_deletes = 1]
    /\ \E s \in Linked(Reg) : Fields(s) = [ZeroStats(0) EXCEPT !.prefix = s.prefix,
                                                             !.prefix_len = s.prefix_len,
                                                             !.num_deletes = 1]

Counters == {"num_gets", "num_hits", "num_sets", "num_deletes", "num_evicts",
             "num_overwrites", "num_expires"}

NotLess(old, new) == \A c \in Counters : new[c] >= old[c]

\* the step is a call of stats_prefix_clear
EpochEnds == call'.name = "clear" /\ admin' = admin + 1

(***************************************************************************)
(* C19: between two clears no step of any operation lowers gets, hits,     *)
(* sets, deletes, evicts, overwrites or expires of any accumulator, the    *)
(* wildcard included, and every accumulator linked before the step is      *)
(* still linked after it, with its prefix.                                 *)
(***************************************************************************)
C19_EpochMonotone ==
    [][EpochEnds \/
         /\ NotLess(wildcard, wildcard')
         /\ \A s \in Linked(Reg) :
               \E u \in Linked(Reg') : /\ u.addr = s.addr
                                        /\ u.prefix = s.prefix
                                        /\ NotLess(s, u)]_vars

\* a prefix counted a set, then another prefix of the same bucket was created by
\* an eviction: both are linked, the older one with its count
C19_Witness ==
    /\ call.name = "record_removal"
    /\ \E b \in UsedBuckets(Reg) : /\ Len(prefix_stats[b]) = 2
                                    /\ prefix_stats[b][1].num_evicts = 1
                                    /\ prefix_stats[b][2].num_sets = 1

\* the pieces of a dump's buffer
Pieces(buf) == {buf[j] : j \in 1..Len(buf)}

CountsOf(h, r, j) ==
    {h.set[r][j + 1], h.hit[r][j + 1], h.evict[r][j + 1], h.delete[r][j + 1],
     h.overwrite[r][j + 1], h.expires[r][j + 1]}

\* the line of slot j of range r
RangeLine(h, r, j) ==
    Printf(BUCKETS_FORMAT,
           BucketArgs(h, r, j, BUCKETS[r].start + j * BUCKETS[r].skip, BUCKETS[r].skip))

(***************************************************************************)
(* C21: item_stats_buckets, when it returns a buffer, has the line of a    *)
(* size range in it if and only if one of the six counts of the range      *)
(* (set, hit, evict, delete, overwrite, expires) is not zero, and the last *)
(* piece of the buffer is "END\r\n".                                       *)
(***************************************************************************)
C21_LinePerRange ==
    LET d == item_stats_buckets(Hist, TRUE)
    IN /\ d.buf[Len(d.buf)] = "END\r\n"
       /\ \A slot \in BucketSlots :
             (RangeLine(Hist, slot[1], slot[2]) \in Pieces(d.buf))
                <=> (CountsOf(Hist, slot[1], slot[2]) # {0})

RECURSIVE PrefixBytes(_)
\* the bytes of the prefixes of a set of accumulators
PrefixBytes(S) ==
    IF S = {} THEN 0
    ELSE LET s == CHOOSE x \in S : TRUE IN Len(s.prefix) + PrefixBytes(S \ {s})

(***************************************************************************)
(* C22: in every reachable state, failed allocations, dumps and clears     *)
(* included, num_prefixes is the number of accumulators linked in the      *)
(* chains, total_prefix_size is the sum of the lengths of their prefixes,  *)
(* and every accumulator is linked in the bucket hash(prefix) mod 256.     *)
(***************************************************************************)
C22_Metadata ==
    /\ num_prefixes = Cardinality(Slots(Reg))
    /\ Cardinality(Linked(Reg)) = Cardinality(Slots(Reg))
    /\ total_prefix_size = PrefixBytes(Linked(Reg))
    /\ \A slot \in Slots(Reg) :
          LET s == At(Reg, slot)
          IN /\ s.prefix_len = Len(s.prefix)
             /\ slot[1] = hash(s.prefix, s.prefix_len, 0) % PREFIX_HASH_SIZE

\* with a dump or a clear among the calls made, the prefixes "" and "a" are
\* linked, each in its bucket
C22_Witness ==
    /\ hash_mul = 1
    /\ admin >= 1
    /\ calls = 2
    /\ num_prefixes = 2
    /\ total_prefix_size = 1
    /\ Cardinality(UsedBuckets(Reg)) = 2

\* new is old but for its total_byte_seconds and last_update
OnlyFlushed(old, new) ==
    new = [old EXCEPT !.total_byte_seconds = new.total_byte_seconds,
                      !.last_update = new.last_update]

(***************************************************************************)
(* C23: a dump changes total_byte_seconds and last_update of the           *)
(* accumulators and nothing else: every other field, the chains with       *)
(* their order, num_prefixes and total_prefix_size stay; so a second dump  *)
(* at the same clock reading, no call in between, returns the same bytes   *)
(* and the same length and leaves the state as the first left it.          *)
(***************************************************************************)
C23_DumpIdempotent ==
    \A now \in current_time..MaxTime :
        LET first == stats_prefix_dump(Reg, now, TRUE)
            second == stats_prefix_dump(first.reg, now, TRUE)
        IN /\ first.reg.num_prefixes = num_prefixes
           /\ first.reg.total_prefix_size = total_prefix_size
           /\ Slots(first.reg) = Slots(Reg)
           /\ \A slot \in Slots(Reg) : OnlyFlushed(At(Reg, slot), At(first.reg, slot))
           /\ OnlyFlushed(wildcard, first.reg.wildcard)
           /\ second.returned = "buf"
           /\ second.buf = first.buf
           /\ second.length = first.length
           /\ second.reg = first.reg

\* a dump at clock 1 has integrated the bytes an accumulator held since clock 0
\* and written its line; a second dump now would find nothing to add
C23_Witness ==
    /\ call = [name |-> "dump", now |-> 1]
    /\ current_time = 1
    /\ ret.returned = "buf"
    /\ \E s \in Linked(Reg) :
          /\ s.num_bytes = MaxBytes
          /\ s.num_items = 1
          /\ s.total_byte_seconds = MaxBytes
          /\ s.last_update = 1
          /\ ret.buf[1] = LineOf(StrN(s.prefix, s.prefix_len), s)

====
